---- MODULE Spec2Model ----
(***************************************************************************)
(* Model of the Conan recipe src/conanfile.py (class ConanRecipe).         *)
(*                                                                         *)
(* Text is a sequence of one-character strings.  The three marker names    *)
(* RENDERER_VERSION_MAJOR / _MINOR / _PATCH are written as one element     *)
(* each: the regular expressions of set_version match them literally and   *)
(* none of the three names overlaps another.                               *)
(*                                                                         *)
(* The recipe calls into the Conan library (tools.load, cmake_layout,      *)
(* CMakeToolchain, CMakeDeps, CMake).  Each such call either returns or    *)
(* raises; which one happens is chosen nondeterministically.  What the     *)
(* recipe does around the calls is taken from the source.                  *)
(***************************************************************************)
EXTENDS Integers, Sequences, FiniteSets, TLC

VARIABLES
    version,        \* self.version
    file,           \* projects/core/include/core/version.hpp, as tools.load sees it
    loads,          \* number of tools.load calls made so far
    layoutPlanned,  \* cmake_layout(self) has returned: self.folders is filled in
    toolchain,      \* a CMakeToolchain.generate() call has returned
    depsMeta,       \* a CMakeDeps.generate() call has returned
    phase,          \* the phase whose method returned normally last
    op,             \* the method invoked last
    calls,          \* the library calls made by the last invocation, in order
    raised,         \* what the last invocation raised to its caller
    requires,       \* self.requires
    build_requires  \* self.build_requires

vars == <<version, file, loads, layoutPlanned, toolchain, depsMeta, phase, op,
          calls, raised, requires, build_requires>>

deps == <<requires, build_requires>>

-----------------------------------------------------------------------------
(* Bounds *)

MaxLines == 3       \* lines of a version file in SpecVersion
MaxLoads == 3       \* set_version invocations in one behaviour

-----------------------------------------------------------------------------
(* Text *)

MAJOR == "RENDERER_VERSION_MAJOR"
MINOR == "RENDERER_VERSION_MINOR"
PATCH == "RENDERER_VERSION_PATCH"
Markers == {MAJOR, MINOR, PATCH}

Digit == {"0", "1", "2", "3", "4", "5", "6", "7", "8", "9"}
Space == {" ", "\t", "\n", "\r", "\f"}

None == <<"None">>
NoMatch == <<"NoMatch">>

RECURSIVE SkipWhile(_, _, _)
SkipWhile(data, j, Class) ==
    IF j <= Len(data) /\ data[j] \in Class
    THEN SkipWhile(data, j + 1, Class)
    ELSE j

\* marker \s+ (\d+) matches with the marker at position i
MatchAt(marker, data, i) ==
    /\ data[i] = marker
    /\ LET w == SkipWhile(data, i + 1, Space)
       IN  w > i + 1 /\ w <= Len(data) /\ data[w] \in Digit

\* re.search(marker \s+ (\d+), data).group(1); NoMatch when re.search gives None
re_search(marker, data) ==
    IF \E i \in 1..Len(data) : MatchAt(marker, data, i)
    THEN LET i == CHOOSE k \in 1..Len(data) :
                     /\ MatchAt(marker, data, k)
                     /\ \A h \in 1..(k - 1) : ~MatchAt(marker, data, h)
             w == SkipWhile(data, i + 1, Space)
             d == SkipWhile(data, w, Digit)
         IN  SubSeq(data, w, d - 1)
    ELSE NoMatch

format_minor_first(major, minor, patch) ==
    minor \o <<".">> \o major \o <<".">> \o patch

\* "{}.{}.{}".format(major, minor, patch)
format(major, minor, patch) == major \o <<".">> \o minor \o <<".">> \o patch

RECURSIVE Join(_)
Join(lines) ==
    IF lines = <<>> THEN <<>>
    ELSE Head(lines) \o <<"\n">> \o Join(Tail(lines))

\* a version file: readable or not, and its lines
File(ls) == [ok |-> TRUE, lines |-> ls]
Unreadable == [ok |-> FALSE, lines |-> <<>>]

\* tools.load(filepath) on a readable file
load(f) == Join(f.lines)

\* set_version without its except clause
resolve_uncaught(f) ==
    IF ~f.ok
    THEN [version |-> None, raised |-> "Exception"]
    ELSE LET data == load(f)
             major_version == re_search(MAJOR, data)
             minor_version == re_search(MINOR, data)
             patch_version == re_search(PATCH, data)
         IN  IF NoMatch \in {major_version, minor_version, patch_version}
             THEN [version |-> None, raised |-> "Exception"]
             ELSE [version |-> format(major_version, minor_version, patch_version),
                   raised |-> "None"]

\* set_version whose tools.load call always raises
resolve_load_unavailable(f) == [version |-> None, raised |-> "None"]

\* set_version assigning self.version as soon as the major number is found
resolve_partial(f) ==
    IF ~f.ok
    THEN [version |-> None, raised |-> "None"]
    ELSE LET data == load(f)
             major_version == re_search(MAJOR, data)
             minor_version == re_search(MINOR, data)
             patch_version == re_search(PATCH, data)
         IN  IF major_version = NoMatch
             THEN [version |-> None, raised |-> "None"]
             ELSE IF NoMatch \in {minor_version, patch_version}
             THEN [version |-> major_version, raised |-> "None"]
             ELSE [version |-> format(major_version, minor_version, patch_version),
                   raised |-> "None"]

\* the try/except of set_version: the value assigned to self.version and what
\* the method raises
resolve(f) ==
    IF ~f.ok
    THEN [version |-> None, raised |-> "None"]
    ELSE LET data == load(f)
             major_version == re_search(MAJOR, data)
             minor_version == re_search(MINOR, data)
             patch_version == re_search(PATCH, data)
         IN  IF NoMatch \in {major_version, minor_version, patch_version}
             THEN [version |-> None, raised |-> "None"]
             ELSE [version |-> format(major_version, minor_version, patch_version),
                   raised |-> "None"]

-----------------------------------------------------------------------------
(* Library calls *)

LayoutSteps == <<"cmake_layout">>
\* generate with the dependency generator run first
GenerateSteps_deps_first == <<"CMakeDeps", "CMakeDeps.generate",
                              "CMakeToolchain", "CMakeToolchain.generate">>

GenerateSteps == <<"CMakeToolchain", "CMakeToolchain.generate",
                   "CMakeDeps", "CMakeDeps.generate">>
BuildSteps == <<"CMake", "CMake.configure", "CMake.build">>

\* a method body that goes on after a call has raised
Run_on_error_resume(steps, k) ==
    [i \in 1..Len(steps) |-> [call |-> steps[i], ok |-> (k = 0 \/ i # k)]]

\* the calls a method body makes when its k-th call raises (k = 0: none does)
Run(steps, k) ==
    [i \in 1..(IF k = 0 THEN Len(steps) ELSE k) |->
        [call |-> steps[i], ok |-> (k = 0 \/ i < k)]]

Failed(cs) == \E i \in 1..Len(cs) : ~cs[i].ok
Returned(cs, name) == \E i \in 1..Len(cs) : cs[i].call = name /\ cs[i].ok
Attempted(cs, name) == \E i \in 1..Len(cs) : cs[i].call = name

\* a method body that catches what its calls raise
Propagate_swallowed(cs) == "None"

\* layout, generate and build have no try/except: what a call raises reaches
\* the caller
Propagate(cs) == IF Failed(cs) THEN "Exception" ELSE "None"

-----------------------------------------------------------------------------
(* Version files *)

GoodLine(m, v) == <<m, " ">> \o v

\* marker, tab and blank, integer
TabLine(m, v) == <<m, "\t", " ">> \o v

Lines ==
    {GoodLine(m, <<"1">>) : m \in Markers}
    \cup {TabLine(m, <<"2", "0">>) : m \in Markers}
    \cup {<<m, " ", "4", "x">> : m \in Markers}       \* digits, then another character
    \cup {<<m>> : m \in Markers}                      \* the marker alone on its line
    \cup {<<MINOR, "5">>}                             \* no whitespace
    \cup {<<PATCH, " ", "x">>}                        \* not an integer
    \cup {<<"7">>, <<"x">>}

RECURSIVE SeqsUpTo(_, _)
SeqsUpTo(S, n) ==
    IF n = 0 THEN {<<>>}
    ELSE LET shorter == SeqsUpTo(S, n - 1)
         IN  shorter \cup {Append(s, x) : s \in shorter, x \in S}

AllFiles == {Unreadable} \cup {File(ls) : ls \in SeqsUpTo(Lines, MaxLines)}

\* the version files of the lifecycle specification
FileSet ==
    { Unreadable,
      File(<<>>),
      File(<<GoodLine(MAJOR, <<"1">>), GoodLine(MINOR, <<"2", "0">>), GoodLine(PATCH, <<"1">>)>>),
      File(<<GoodLine(PATCH, <<"2", "0">>), GoodLine(MAJOR, <<"2", "0">>), GoodLine(MINOR, <<"1">>)>>),
      File(<<GoodLine(MINOR, <<"1">>), GoodLine(PATCH, <<"1">>)>>),
      File(<<GoodLine(MAJOR, <<"1">>), GoodLine(PATCH, <<"1">>)>>),
      File(<<GoodLine(MAJOR, <<"1">>), GoodLine(MINOR, <<"1">>)>>) }

-----------------------------------------------------------------------------
(* The recipe *)

RecipeRequires == <<"glm/1.0.1", "vulkan-memory-allocator/3.0.1", "glfw/3.4">>
RecipeBuildRequires == <<"gtest/1.16.0", "benchmark/1.9.1">>

InitRecipe ==
    /\ version = None
    /\ loads = 0
    /\ layoutPlanned = FALSE
    /\ toolchain = FALSE
    /\ depsMeta = FALSE
    /\ phase = "Unloaded"
    /\ op = "none"
    /\ calls = <<>>
    /\ raised = "None"
    /\ requires = RecipeRequires
    /\ build_requires = RecipeBuildRequires

Init == InitRecipe /\ file \in FileSet

InitVersion == InitRecipe /\ file \in AllFiles

set_version ==
    /\ loads < MaxLoads
    /\ LET r == resolve(file)
       IN  /\ version' = r.version
           /\ raised' = r.raised
           /\ phase' = IF r.raised = "None" THEN "VersionResolved" ELSE phase
    /\ loads' = loads + 1
    /\ op' = "set_version"
    /\ calls' = <<[call |-> "tools.load", ok |-> file.ok]>>
    /\ UNCHANGED <<file, layoutPlanned, toolchain, depsMeta, deps>>

layout ==
    \E k \in 0..Len(LayoutSteps) :
        /\ calls' = Run(LayoutSteps, k)
        /\ raised' = Propagate(calls')
        /\ layoutPlanned' = (layoutPlanned \/ Returned(calls', "cmake_layout"))
        /\ phase' = IF raised' = "None" THEN "LayoutPlanned" ELSE phase
        /\ op' = "layout"
        /\ UNCHANGED <<version, file, loads, toolchain, depsMeta, deps>>

\* generate folding build_requires into requires for the dependency generator
generate_merging_lists ==
    \E k \in 0..Len(GenerateSteps) :
        /\ calls' = Run(GenerateSteps, k)
        /\ raised' = Propagate(calls')
        /\ toolchain' = (toolchain \/ Returned(calls', "CMakeToolchain.generate"))
        /\ depsMeta' = (depsMeta \/ Returned(calls', "CMakeDeps.generate"))
        /\ phase' = IF raised' = "None" THEN "Generated" ELSE phase
        /\ op' = "generate"
        /\ requires' = requires \o build_requires
        /\ UNCHANGED <<version, file, loads, layoutPlanned, build_requires>>

generate ==
    \E k \in 0..Len(GenerateSteps) :
        /\ calls' = Run(GenerateSteps, k)
        /\ raised' = Propagate(calls')
        /\ toolchain' = (toolchain \/ Returned(calls', "CMakeToolchain.generate"))
        /\ depsMeta' = (depsMeta \/ Returned(calls', "CMakeDeps.generate"))
        /\ phase' = IF raised' = "None" THEN "Generated" ELSE phase
        /\ op' = "generate"
        /\ UNCHANGED <<version, file, loads, layoutPlanned, deps>>

build ==
    \E k \in 0..Len(BuildSteps) :
        /\ calls' = Run(BuildSteps, k)
        /\ raised' = Propagate(calls')
        /\ phase' = IF raised' = "None" THEN "Built" ELSE phase
        /\ op' = "build"
        /\ UNCHANGED <<version, file, loads, layoutPlanned, toolchain, depsMeta, deps>>

\* the environment rewrites, removes or restores the version file
ChangeFile ==
    /\ file' \in FileSet \ {file}
    /\ UNCHANGED <<version, loads, layoutPlanned, toolchain, depsMeta, phase, op,
                   calls, raised, deps>>

Next == set_version \/ layout \/ generate \/ build \/ ChangeFile

Spec == Init /\ [][Next]_vars

NextVersion == set_version

SpecVersion == InitVersion /\ [][NextVersion]_vars

-----------------------------------------------------------------------------
(* Properties *)

HasMarker(line, m) == \E i \in 1..Len(line) : line[i] = m

\* line is m, then whitespace, then an integer, and nothing else
IsMarkerLine(line, m) ==
    /\ Len(line) >= 3
    /\ line[1] = m
    /\ \E w \in 2..(Len(line) - 1) :
           /\ \A j \in 2..w : line[j] \in Space \ {"\n"}
           /\ \A j \in (w + 1)..Len(line) : line[j] \in Digit

\* the integer of such a line
IntegerOf(line) ==
    LET w == CHOOSE k \in 2..(Len(line) - 1) :
                 /\ line[k] \in Space
                 /\ \A j \in (k + 1)..Len(line) : line[j] \in Digit
    IN  SubSeq(line, w + 1, Len(line))

LinesWith(f, m) == {i \in 1..Len(f.lines) : HasMarker(f.lines[i], m)}

\* the file is readable, each marker occurs in exactly one line, and that
\* line is the marker, whitespace and an integer
WellFormedFile(f) ==
    /\ f.ok
    /\ \A m \in Markers :
           /\ Cardinality(LinesWith(f, m)) = 1
           /\ \A i \in LinesWith(f, m) : IsMarkerLine(f.lines[i], m)

MarkerValue(f, m) == IntegerOf(f.lines[CHOOSE i \in LinesWith(f, m) : TRUE])

MarkerAbsent(f) == \E m \in Markers : LinesWith(f, m) = {}

\* C3: after set_version on a readable file holding the three markers, each
\* on one line followed by whitespace and an integer, in any line order, the
\* version is "<major>.<minor>.<patch>" built from the three integers.
C3_VersionFromMarkers ==
    (loads >= 1 /\ WellFormedFile(file)) =>
        version = MarkerValue(file, MAJOR) \o <<".">> \o MarkerValue(file, MINOR)
                      \o <<".">> \o MarkerValue(file, PATCH)

\* PATCH, MINOR, MAJOR line order: 20.20.1
C3_Witness ==
    /\ loads >= 1
    /\ file = File(<<GoodLine(PATCH, <<"1">>),
                     TabLine(MINOR, <<"2", "0">>),
                     TabLine(MAJOR, <<"2", "0">>)>>)
    /\ WellFormedFile(file)
    /\ version = <<"2", "0", ".", "2", "0", ".", "1">>

\* C4: a set_version call on an unreadable file, or on a file from which one
\* of the three markers is absent, raises nothing and stores the absent
\* version.
C4_UnresolvedNeverRaises ==
    [][(loads' = loads + 1 /\ (~file.ok \/ MarkerAbsent(file)))
          => (raised' = "None" /\ version' = None)]_vars

\* the lifecycle went on to Built after such a set_version
C4_Witness ==
    /\ loads >= 1
    /\ ~file.ok \/ MarkerAbsent(file)
    /\ version = None
    /\ layoutPlanned /\ toolchain /\ depsMeta
    /\ phase = "Built"
    /\ raised = "None"

\* the lifecycle states in their order
Rank(p) ==
    CASE p = "Unloaded" -> 0
      [] p = "VersionResolved" -> 1
      [] p = "LayoutPlanned" -> 2
      [] p = "Generated" -> 3
      [] p = "Built" -> 4

\* C1: a generate invocation made before the layout is planned, and a build
\* invocation made before the artifacts are generated, fails with
\* LifecycleOrderError, makes no library call and changes nothing.
C1_OutOfOrderRejected ==
    [][((op' = "generate" /\ ~layoutPlanned)
            \/ (op' = "build" /\ ~(toolchain /\ depsMeta)))
          => /\ raised' = "LifecycleOrderError"
             /\ calls' = <<>>
             /\ phase' = phase
             /\ UNCHANGED <<layoutPlanned, toolchain, depsMeta>>]_vars

\* C2: in a build invocation CMake.build is called only after CMake.configure
\* has returned; when configure fails, build is not called, the failure
\* reaches the caller and the invocation does not move the lifecycle to Built.
C2_ConfigureBeforeBuild ==
    [][op' = "build" =>
          /\ \A i \in 1..Len(calls') :
                 calls'[i].call = "CMake.build" =>
                     \E j \in 1..(i - 1) :
                         calls'[j] = [call |-> "CMake.configure", ok |-> TRUE]
          /\ (Attempted(calls', "CMake.configure")
                  /\ ~Returned(calls', "CMake.configure"))
                 => /\ ~Attempted(calls', "CMake.build")
                    /\ raised' # "None"
                    /\ phase' = phase]_vars

\* a build invocation whose configure failed after generation
C2_Witness ==
    /\ op = "build"
    /\ calls = <<[call |-> "CMake", ok |-> TRUE],
                 [call |-> "CMake.configure", ok |-> FALSE]>>
    /\ raised = "Exception"
    /\ phase = "Generated"

\* C5: once set_version has run, no later step changes the version or reads
\* the version file again.
C5_ResolvedOnce ==
    [][loads >= 1 => (version' = version /\ loads' = loads)]_vars

\* C7: the lifecycle state never moves backwards, except from Built to
\* Generated.
C7_ForwardOnly ==
    [][Rank(phase') >= Rank(phase)
          \/ (phase = "Built" /\ phase' = "Generated")]_vars

\* C8: set_version raises nothing; in layout, generate and build a failing
\* library call is the last call of the invocation, reaches the caller, and
\* leaves the lifecycle state where it was.
C8_OnlyVersionRecovered ==
    [][/\ op' = "set_version" => raised' = "None"
       /\ (op' \in {"layout", "generate", "build"} /\ Failed(calls'))
              => /\ ~calls'[Len(calls')].ok
                 /\ \A i \in 1..(Len(calls') - 1) : calls'[i].ok
                 /\ raised' # "None"
                 /\ phase' = phase]_vars

\* the dependency generator failed after the toolchain generator returned
C8_Witness ==
    /\ op = "generate"
    /\ Returned(calls, "CMakeToolchain.generate")
    /\ Attempted(calls, "CMakeDeps.generate")
    /\ ~Returned(calls, "CMakeDeps.generate")
    /\ raised = "Exception"
    /\ phase = "LayoutPlanned"

\* C14: no step changes the contents or the order of self.requires or of
\* self.build_requires, and neither list ever holds an entry of the other.
C14_DependencyListsFixed ==
    /\ requires = RecipeRequires
    /\ build_requires = RecipeBuildRequires
    /\ \A i \in 1..Len(requires) : \A j \in 1..Len(build_requires) :
           requires[i] # build_requires[j]

\* every method has run, set_version and generate more than once
C14_Witness ==
    /\ loads >= 2
    /\ layoutPlanned /\ toolchain /\ depsMeta
    /\ phase = "Generated"
    /\ op = "generate"
    /\ requires = <<"glm/1.0.1", "vulkan-memory-allocator/3.0.1", "glfw/3.4">>
    /\ build_requires = <<"gtest/1.16.0", "benchmark/1.9.1">>

\* C17: in a generate invocation the dependency generator is constructed and
\* run only after CMakeToolchain.generate has returned; when the toolchain
\* generator fails, the dependency generator is not attempted and the failure
\* reaches the caller.
C17_ToolchainBeforeDeps ==
    op = "generate" =>
        /\ \A i \in 1..Len(calls) :
               calls[i].call \in {"CMakeDeps", "CMakeDeps.generate"} =>
                   \E j \in 1..(i - 1) :
                       calls[j] = [call |-> "CMakeToolchain.generate", ok |-> TRUE]
        /\ (Attempted(calls, "CMakeToolchain")
                /\ ~Returned(calls, "CMakeToolchain.generate"))
               => /\ ~Attempted(calls, "CMakeDeps")
                  /\ ~Attempted(calls, "CMakeDeps.generate")
                  /\ raised # "None"
        /\ Returned(calls, "CMakeDeps.generate")
               => Returned(calls, "CMakeToolchain.generate")

\* the toolchain generator failed while writing
C17_Witness ==
    /\ op = "generate"
    /\ calls = <<[call |-> "CMakeToolchain", ok |-> TRUE],
                 [call |-> "CMakeToolchain.generate", ok |-> FALSE]>>
    /\ raised = "Exception"
    /\ ~depsMeta

\* some marker occurs in the file, and no line holding it is the marker,
\* whitespace and an integer
NonIntegerMarker(f) ==
    \E m \in Markers :
        /\ LinesWith(f, m) # {}
        /\ \A i \in LinesWith(f, m) : ~IsMarkerLine(f.lines[i], m)

\* C15: after set_version on a readable file in which a marker is present
\* only with a non-integer value (digits followed by another character, or
\* the integer on the following line), the version is absent.
C15_NonIntegerUnresolved ==
    (loads >= 1 /\ file.ok /\ NonIntegerMarker(file)) => version = None

Dots(v) == {i \in 1..Len(v) : v[i] = "."}

\* three non-empty runs of decimal digits joined by two dots
IsVersionString(v) ==
    /\ Cardinality(Dots(v)) = 2
    /\ \A i \in 1..Len(v) : v[i] \in Digit \cup {"."}
    /\ v[1] # "." /\ v[Len(v)] # "."
    /\ \A i \in 1..(Len(v) - 1) : ~(v[i] = "." /\ v[i + 1] = ".")

\* the digits of v before its first dot, between its dots, after its last
Component(v, n) ==
    LET d1 == CHOOSE i \in Dots(v) : \A j \in Dots(v) : i <= j
        d2 == CHOOSE i \in Dots(v) : \A j \in Dots(v) : i >= j
    IN  CASE n = 1 -> SubSeq(v, 1, d1 - 1)
          [] n = 2 -> SubSeq(v, d1 + 1, d2 - 1)
          [] n = 3 -> SubSeq(v, d2 + 1, Len(v))

\* the text holds marker, whitespace, digits, and the digits end there
FollowsMarker(data, m, digits) ==
    \E i \in 1..Len(data) : \E w \in (i + 2)..Len(data) :
        /\ data[i] = m
        /\ \A j \in (i + 1)..(w - 1) : data[j] \in Space
        /\ w + Len(digits) - 1 <= Len(data)
        /\ SubSeq(data, w, w + Len(digits) - 1) = digits
        /\ (w + Len(digits) <= Len(data) => data[w + Len(digits)] \notin Digit)

\* C16: the version is absent, or three decimal integers joined by dots, each
\* of which follows its own marker in the file that was read; it is never
\* built from one or two markers.
C16_AllOrNothing ==
    \/ version = None
    \/ /\ IsVersionString(version)
       /\ file.ok
       /\ FollowsMarker(Join(file.lines), MAJOR, Component(version, 1))
       /\ FollowsMarker(Join(file.lines), MINOR, Component(version, 2))
       /\ FollowsMarker(Join(file.lines), PATCH, Component(version, 3))

\* set_version ran on a file where only MAJOR and MINOR can be matched
C16_Witness ==
    /\ loads >= 1
    /\ file = File(<<GoodLine(MAJOR, <<"1">>), TabLine(MINOR, <<"2", "0">>),
                     <<PATCH, " ", "x">>>>)
    /\ version = None

-----------------------------------------------------------------------------
(* The normal call sequence on valid inputs: a well-formed version file and
   library calls that all return *)

InitNormal == InitRecipe /\ file \in {f \in AllFiles : WellFormedFile(f)}

NormalSetVersion == phase = "Unloaded" /\ set_version
NormalLayout == phase = "VersionResolved" /\ layout /\ ~Failed(calls')
NormalGenerate == phase = "LayoutPlanned" /\ generate /\ ~Failed(calls')
NormalBuild == phase = "Generated" /\ build /\ ~Failed(calls')

NextNormal == NormalSetVersion \/ NormalLayout \/ NormalGenerate \/ NormalBuild

SpecNormal == InitNormal /\ [][NextNormal]_vars

\* C12: on valid inputs the sequence set_version, layout, generate, build
\* raises nothing, leaves the lifecycle in VersionResolved, LayoutPlanned,
\* Generated and Built in turn, with the version resolved, and does not stop
\* before Built.
C12_NormalSequence ==
    /\ raised = "None"
    /\ op = "none" => phase = "Unloaded"
    /\ op = "set_version" => phase = "VersionResolved"
    /\ op = "layout" => phase = "LayoutPlanned" /\ layoutPlanned
    /\ op = "generate" => phase = "Generated" /\ toolchain /\ depsMeta
    /\ op = "build" => phase = "Built"
    /\ op # "none" => IsVersionString(version)
    /\ phase # "Built" => ENABLED NextNormal

\* the end of the sequence
C12_Witness ==
    /\ op = "build"
    /\ phase = "Built"
    /\ raised = "None"
    /\ loads = 1
    /\ layoutPlanned /\ toolchain /\ depsMeta
    /\ IsVersionString(version)

====
